---------------------------- MODULE Spec2Model ----------------------------
(***************************************************************************)
(* A model of try_operator.hpp: the error_traits registry, the capability *)
(* classifiers is_detailed_error_v / is_error_with_value_v / is_error_v,  *)
(* the error_proxy conversion and the try() macro.                         *)
(*                                                                         *)
(* A translation unit is a chain of functions F_1 .. F_n.  F_d has the    *)
(* declared result type prog[d].R; its body applies try() to a leaf       *)
(* operation of type prog[d].L, then (when F_{d+1} exists) to a call of   *)
(* F_{d+1}, then to the leaf operation again, and returns a success value.*)
(* The compile phase applies the static_asserts and enable_ifs of the     *)
(* header to every try() site; only an accepted unit runs.                 *)
(***************************************************************************)
EXTENDS Integers, Naturals, Sequences, FiniteSets, TLC

\* Bounds of the model.
MaxDepth == 2      \* functions in the call chain
MaxPayload == 1    \* success payloads are 0 .. MaxPayload (0 is int{})
MaxErr == 2        \* error codes are 0 .. MaxErr (0 is the unset code)

VARIABLES phase, prog, diag, stack, proxy, result, lastTry, hist

vars == <<phase, prog, diag, stack, proxy, result, lastTry, hist>>

--------------------------------------------------------------------------
\* Types.  A type is a tuple: its template name, then its arguments.

INT == <<"int">>
EC == <<"error_code">>
ECOND == <<"error_condition">>
OPT(T) == <<"optional", T>>
PAIR(T, E) == <<"tuple", T, E>>

\* The types a translation unit of the model may name.
ErrorLess == {INT, EC, ECOND, OPT(INT)}
Types == ErrorLess \cup {PAIR(INT, E) : E \in ErrorLess \cup {PAIR(INT, EC)}}

\* has_optional_semantics_v: false, specialised to true for std::optional<T>.
has_optional_semantics_v(T) == T[1] = "optional"

\* has_indicates_error_v: a free function indicates_error(x) is found; the
\* header supplies it for std::error_code and std::error_condition.
has_indicates_error_v(T) == T[1] \in {"error_code", "error_condition"}

\* is_pair_v: a two-argument template on which std::get<0>, std::get<1> work.
is_pair_v(T) == T[1] = "tuple" /\ Len(T) = 3

RECURSIVE error_traits(_)

\* is_detailed_error_v: indicates_error(x) and make_error(extract_error(x))
\* are well-formed on error_traits<T>.
is_detailed_error_v(T) ==
    {"indicates_error", "extract_error", "make_error(Error)"} \subseteq error_traits(T)

\* is_error_with_value_v: indicates_error(x), the name make_error and
\* extract_value(x) are well-formed on error_traits<T>.
is_error_with_value_v(T) ==
    /\ {"indicates_error", "extract_value"} \subseteq error_traits(T)
    /\ error_traits(T) \cap {"make_error()", "make_error(Error)"} # {}

\* The pair specialisation with its last enable_if condition dropped.
error_traits_any_detailed_second(T) ==
    IF has_optional_semantics_v(T)
    THEN {"indicates_error", "make_error()", "extract_value"}
    ELSE IF has_indicates_error_v(T)
    THEN {"indicates_error", "make_error(Error)", "extract_error"}
    ELSE IF is_pair_v(T) /\ is_detailed_error_v(T[3])
    THEN {"indicates_error", "make_error(Error)", "extract_value", "extract_error"}
    ELSE {}

\* error_traits<T>: the members of the specialisation selected for T; the
\* primary template is declared and never defined, so it has none.
error_traits(T) ==
    IF has_optional_semantics_v(T)
    THEN {"indicates_error", "make_error()", "extract_value"}
    ELSE IF has_indicates_error_v(T)
    THEN {"indicates_error", "make_error(Error)", "extract_error"}
    ELSE IF /\ is_pair_v(T)
            /\ is_detailed_error_v(T[3])
            /\ ~is_error_with_value_v(T[3])
    THEN {"indicates_error", "make_error(Error)", "extract_value", "extract_error"}
    ELSE {}

is_error_v(T) == is_detailed_error_v(T) \/ is_error_with_value_v(T)

\* The type extract_error returns and make_error takes: T itself for an
\* error code-like T, the second template argument for a pair.
error_type(T) == IF has_indicates_error_v(T) THEN T ELSE T[3]

--------------------------------------------------------------------------
\* Values.  int and the error codes are numbers, an optional is <<>> or
\* <<v>>, a pair is <<v, e>>.

RECURSIVE Values(_)
Values(T) ==
    IF T = INT THEN 0 .. MaxPayload
    ELSE IF has_indicates_error_v(T) THEN 0 .. MaxErr
    ELSE IF has_optional_semantics_v(T)
    THEN {<<>>} \cup {<<v>> : v \in Values(T[2])}
    ELSE Values(T[2]) \X Values(T[3])

\* T{}: value-initialisation.
RECURSIVE DefaultValue(_)
DefaultValue(T) ==
    IF T = INT \/ has_indicates_error_v(T) THEN 0
    ELSE IF has_optional_semantics_v(T) THEN <<>>
    ELSE <<DefaultValue(T[2]), DefaultValue(T[3])>>

\* indicates_error(std::error_code const&) / (std::error_condition const&),
\* reached through detail::call_indicates_error: static_cast<bool>(ec).
call_indicates_error(ec) == ec # 0

\* The pair adapter reading the wrong component.
indicates_error_first_component(T, x) ==
    IF has_optional_semantics_v(T) THEN x = <<>>
    ELSE IF has_indicates_error_v(T) THEN call_indicates_error(x)
    ELSE call_indicates_error(x[1])

\* error_traits<T>::indicates_error
indicates_error(T, x) ==
    IF has_optional_semantics_v(T) THEN x = <<>>
    ELSE IF has_indicates_error_v(T) THEN call_indicates_error(x)
    ELSE call_indicates_error(x[2])

\* error_traits<T>::make_error() of the optional adapter: return {}.
make_error0(T) == <<>>

\* The pair adapter keeping no error in the value it builds.
make_error_drops_code(T, err) ==
    IF has_indicates_error_v(T) THEN err
    ELSE DefaultValue(T)

\* error_traits<T>::make_error(Error&&): the code itself, or a
\* value-initialised pair whose second component is then assigned.
make_error(T, err) ==
    IF has_indicates_error_v(T) THEN err
    ELSE [DefaultValue(T) EXCEPT ![2] = err]

\* The pair adapter yielding the error component as the value.
extract_value_second_component(T, x) ==
    IF has_optional_semantics_v(T)
    THEN IF x # <<>> THEN {x[1]} ELSE Values(T[2])
    ELSE {x[2]}

\* error_traits<T>::extract_value: the results the call can have.  *opt on
\* an empty optional is undefined: any payload may come out.
extract_value(T, x) ==
    IF has_optional_semantics_v(T)
    THEN IF x # <<>> THEN {x[1]} ELSE Values(T[2])
    ELSE {x[1]}

\* error_traits<T>::extract_error
extract_error(T, x) ==
    IF has_indicates_error_v(T) THEN x
    ELSE x[2]

--------------------------------------------------------------------------
\* error_proxy and the try() macro.

\* error_proxy<Src>::operator Dst() that extracts the source's error payload
\* before it looks at the destination.
error_proxy_convert_always_detailed(Src, Dst, value) ==
    [result |-> IF is_detailed_error_v(Dst)
                THEN make_error(Dst, extract_error(Src, value))
                ELSE make_error0(Dst),
     reads |-> IF is_detailed_error_v(Src) THEN <<"extract_error">> ELSE <<>>]

\* error_proxy<Src>::operator Dst() that builds the failure from a
\* value-initialised error payload instead of the source's.
error_proxy_convert_default_payload(Src, Dst, value) ==
    IF is_detailed_error_v(Dst)
    THEN [result |-> make_error(Dst, DefaultValue(error_type(Dst))),
          reads |-> <<>>]
    ELSE [result |-> make_error0(Dst), reads |-> <<>>]

\* error_proxy<Src>::operator Dst(): the destination value, and the trait
\* operations it applies to the referenced source value.
error_proxy_convert(Src, Dst, value) ==
    IF is_detailed_error_v(Dst)
    THEN [result |-> make_error(Dst, extract_error(Src, value)),
          reads |-> <<"extract_error">>]
    ELSE [result |-> make_error0(Dst), reads |-> <<>>]

\* detail::maybe_extract_value: whether the macro yields a value, the
\* values it can yield, and the trait operations applied to the operand.
maybe_extract_value(T, value) ==
    IF is_error_with_value_v(T)
    THEN [yields |-> TRUE, results |-> extract_value(T, value),
          reads |-> <<"extract_value">>]
    ELSE [yields |-> FALSE, results |-> {0}, reads |-> <<>>]

\* The conversion operator with the static_assert on Src dropped.
conversion_well_formed_no_assert(Src, Dst) == TRUE

\* The body of operator Dst() instantiates: for a detailed Dst the
\* static_assert on Src holds and Dst's make_error accepts what Src's
\* extract_error returns (std::error_code and std::error_condition do not
\* convert into each other).
conversion_well_formed(Src, Dst) ==
    is_detailed_error_v(Dst) =>
        /\ is_detailed_error_v(Src)
        /\ error_type(Src) = error_type(Dst)

\* try(expr) checked for the error categories of its two types only.
Compiles_categories_only(S, D) == is_error_v(S) /\ is_error_v(D)

\* try(expr) with an operand of type S in a function returning D compiles:
\* the macro's static_assert, error_proxy's static_assert, the enable_if of
\* the conversion operator and the conversion's body.
Compiles(S, D) ==
    /\ is_error_v(S)
    /\ is_error_v(D)
    /\ conversion_well_formed(S, D)

--------------------------------------------------------------------------
\* The translation unit and its execution.

\* The try() sites of function fn, in order.
Body(fn) == IF fn < Len(prog) THEN <<"leaf", "call", "leaf">>
            ELSE <<"leaf", "leaf">>

\* decltype(_value_) at a site of fn.
OperandType(fn, site) ==
    IF Body(fn)[site] = "call" THEN prog[fn + 1].R ELSE prog[fn].L

\* The try() sites that declaring a function (R, L) after prog adds: its
\* leaf site, and the call site of the function declared before it.
NewSites(R, L) ==
    {[S |-> L, D |-> R]} \cup
    (IF prog = <<>> THEN {} ELSE {[S |-> R, D |-> prog[Len(prog)].R]})

NoValue == [has |-> FALSE, val |-> 0]
NoProxy == [live |-> FALSE, Src |-> INT, owner |-> 0]
NoTry == [set |-> FALSE, S |-> INT, D |-> INT, value |-> 0, reads |-> <<>>,
          outcome |-> "none", yields |-> FALSE, out |-> 0]

NewFrame(fn) == [fn |-> fn, site |-> 1, pc |-> "Evaluate", hasValue |-> FALSE,
                 value |-> 0, yield |-> NoValue, reads |-> <<>>]

Top == stack[Len(stack)]
TopS == OperandType(Top.fn, Top.site)
TopD == prog[Top.fn].R

\* Whether a value of an error type is in its failure state, by its shape.
Fails(T, v) == IF T[1] = "optional" THEN v = <<>>
               ELSE IF T[1] = "tuple" THEN v[2] # 0
               ELSE v # 0

Init ==
    /\ phase = "compile"
    /\ prog = <<>>
    /\ diag = [set |-> FALSE, S |-> INT, D |-> INT]
    /\ stack = <<>>
    /\ proxy = NoProxy
    /\ result = NoValue
    /\ lastTry = NoTry
    /\ hist = [nCtor |-> 0, nConv |-> 0, failed |-> FALSE, after |-> 0,
               leaf |-> [set |-> FALSE, ty |-> INT, val |-> 0, depth |-> 0]]

\* A function whose try() sites all compile is added to the unit.
DeclareFunction(R, L) ==
    /\ phase = "compile"
    /\ Len(prog) < MaxDepth
    /\ \A s \in NewSites(R, L) : Compiles(s.S, s.D)
    /\ prog' = Append(prog, [R |-> R, L |-> L])
    /\ UNCHANGED <<phase, diag, stack, proxy, result, lastTry, hist>>

\* A function with a try() site that does not compile: the unit is
\* rejected, nothing runs.
Reject(R, L) ==
    /\ phase = "compile"
    /\ Len(prog) < MaxDepth
    /\ \E s \in NewSites(R, L) :
        /\ ~Compiles(s.S, s.D)
        /\ diag' = [set |-> TRUE, S |-> s.S, D |-> s.D]
    /\ phase' = "rejected"
    /\ prog' = Append(prog, [R |-> R, L |-> L])
    /\ UNCHANGED <<stack, proxy, result, lastTry, hist>>

\* The accepted unit starts: F_1 is called.
Start ==
    /\ phase = "compile"
    /\ prog # <<>>
    /\ phase' = "run"
    /\ stack' = <<NewFrame(1)>>
    /\ UNCHANGED <<prog, diag, proxy, result, lastTry, hist>>

\* auto _value_ = (expr), expr a leaf operation: any value of its type.
EvaluateLeaf ==
    /\ phase = "run"
    /\ Top.pc = "Evaluate"
    /\ Body(Top.fn)[Top.site] = "leaf"
    /\ \E v \in Values(TopS) :
        /\ stack' = [stack EXCEPT ![Len(stack)] =
                        [@ EXCEPT !.pc = "CheckFailure", !.hasValue = TRUE,
                                  !.value = v, !.reads = <<"evaluate">>]]
        /\ hist' = IF hist.failed
                   THEN [hist EXCEPT !.after = @ + 1]
                   ELSE [hist EXCEPT !.failed = Fails(TopS, v),
                                     !.leaf = [set |-> TRUE, ty |-> TopS, val |-> v,
                                              depth |-> Len(stack)]]
    /\ UNCHANGED <<phase, prog, diag, proxy, result, lastTry>>

\* auto _value_ = (expr), expr a call of the next function: it starts.
EvaluateCall ==
    /\ phase = "run"
    /\ Top.pc = "Evaluate"
    /\ Body(Top.fn)[Top.site] = "call"
    /\ stack' = Append(stack, NewFrame(Top.fn + 1))
    /\ UNCHANGED <<phase, prog, diag, proxy, result, lastTry, hist>>

\* The macro's if that constructs the proxy before the test.
CheckFailure_proxy_first ==
    /\ phase = "run"
    /\ Top.pc = "CheckFailure"
    /\ proxy' = [live |-> TRUE, Src |-> TopS, owner |-> Len(stack)]
    /\ hist' = [hist EXCEPT !.nCtor = @ + 1]
    /\ stack' = [stack EXCEPT ![Len(stack)] =
                    [@ EXCEPT !.pc = IF indicates_error(TopS, Top.value)
                                     THEN "Exit" ELSE "Continue",
                              !.reads = Append(@, "indicates_error")]]
    /\ UNCHANGED <<phase, prog, diag, result, lastTry>>

\* The macro's if without its return: execution falls through.
CheckFailure_no_return ==
    /\ phase = "run"
    /\ Top.pc = "CheckFailure"
    /\ stack' = [stack EXCEPT ![Len(stack)] =
                    [@ EXCEPT !.pc = "Continue",
                              !.reads = Append(@, "indicates_error")]]
    /\ UNCHANGED <<phase, prog, diag, proxy, result, lastTry, hist>>

\* if (error_traits<decltype(_value_)>::indicates_error(_value_)): on
\* failure error_proxy{std::move(_value_)} is constructed.
CheckFailure ==
    /\ phase = "run"
    /\ Top.pc = "CheckFailure"
    /\ IF indicates_error(TopS, Top.value)
       THEN /\ proxy' = [live |-> TRUE, Src |-> TopS, owner |-> Len(stack)]
            /\ hist' = [hist EXCEPT !.nCtor = @ + 1]
            /\ stack' = [stack EXCEPT ![Len(stack)] =
                            [@ EXCEPT !.pc = "Exit",
                                      !.reads = Append(@, "indicates_error")]]
       ELSE /\ stack' = [stack EXCEPT ![Len(stack)] =
                            [@ EXCEPT !.pc = "Continue",
                                      !.reads = Append(@, "indicates_error")]]
            /\ UNCHANGED <<proxy, hist>>
    /\ UNCHANGED <<phase, prog, diag, result, lastTry>>

\* The function on top returns v: to the _value_ of the caller's try(), or
\* out of the chain.
Deliver(v) ==
    IF Len(stack) = 1
    THEN /\ stack' = <<>>
         /\ result' = [has |-> TRUE, val |-> v]
         /\ phase' = "done"
    ELSE /\ stack' = [SubSeq(stack, 1, Len(stack) - 1) EXCEPT ![Len(stack) - 1] =
                        [@ EXCEPT !.pc = "CheckFailure", !.hasValue = TRUE,
                                  !.value = v, !.reads = <<"evaluate">>]]
         /\ UNCHANGED <<result, phase>>

\* return error_proxy{...}: the proxy converts to the declared result type,
\* the function returns the converted value, the proxy is destroyed.
Exit ==
    /\ phase = "run"
    /\ Top.pc = "Exit"
    /\ LET conv == error_proxy_convert(proxy.Src, TopD, Top.value)
       IN /\ Deliver(conv.result)
          /\ lastTry' = [set |-> TRUE, S |-> TopS, D |-> TopD, value |-> Top.value,
                         reads |-> Top.reads \o conv.reads, outcome |-> "exit",
                         yields |-> FALSE, out |-> conv.result]
    /\ proxy' = NoProxy
    /\ hist' = [hist EXCEPT !.nConv = @ + 1]
    /\ UNCHANGED <<prog, diag>>

\* maybe_extract_value(std::move(_value_)): the macro's value; the function
\* goes on to its next statement.
Continue ==
    /\ phase = "run"
    /\ Top.pc = "Continue"
    /\ LET m == maybe_extract_value(TopS, Top.value)
       IN \E r \in m.results :
            /\ stack' = [stack EXCEPT ![Len(stack)] =
                  [@ EXCEPT !.pc = IF Top.site = Len(Body(Top.fn))
                                   THEN "Return" ELSE "Evaluate",
                            !.site = IF Top.site = Len(Body(Top.fn))
                                     THEN @ ELSE @ + 1,
                            !.hasValue = FALSE, !.value = 0, !.reads = <<>>,
                            !.yield = [has |-> m.yields, val |-> r]]]
            /\ lastTry' = [set |-> TRUE, S |-> TopS, D |-> TopD, value |-> Top.value,
                           reads |-> Top.reads \o m.reads, outcome |-> "continue",
                           yields |-> m.yields, out |-> r]
    /\ UNCHANGED <<phase, prog, diag, proxy, result, hist>>

\* A success value of type R carrying payload p (none for an error code).
success_value(R, p) ==
    IF R[1] = "optional" THEN <<p>>
    ELSE IF R[1] = "tuple" THEN <<p, 0>>
    ELSE 0

\* The end of the function's body: it returns the payload its last try()
\* yielded (a payload of its own when that try() yielded none) as a success.
ReturnSuccess ==
    /\ phase = "run"
    /\ Top.pc = "Return"
    /\ \E p \in (IF Top.yield.has THEN {Top.yield.val} ELSE Values(INT)) :
        Deliver(success_value(TopD, p))
    /\ UNCHANGED <<prog, diag, proxy, lastTry, hist>>

Next ==
    \/ \E R \in Types, L \in Types : DeclareFunction(R, L)
    \/ \E R \in Types, L \in Types : Reject(R, L)
    \/ Start
    \/ EvaluateLeaf
    \/ EvaluateCall
    \/ CheckFailure
    \/ Exit
    \/ Continue
    \/ ReturnSuccess

Spec == Init /\ [][Next]_vars

--------------------------------------------------------------------------
\* The shapes of section 6, read off the types and values themselves.

OptionalLike(T) == T[1] = "optional"
CodeLike(T) == T[1] \in {"error_code", "error_condition"}
PairLike(T) == T[1] = "tuple" /\ CodeLike(T[3])
BadPair(T) == T[1] = "tuple" /\ T[3][1] \in {"optional", "tuple"}
DetailedShape(T) == CodeLike(T) \/ PairLike(T)
ValueShape(T) == OptionalLike(T) \/ PairLike(T)
InCategory(T) == DetailedShape(T) \/ ValueShape(T)
CodeTypeOf(T) == IF CodeLike(T) THEN T ELSE T[3]
ErrorOf(T, v) == IF CodeLike(T) THEN v ELSE v[2]
PayloadOf(T, v) == v[1]

\* The try() sites of the functions declared so far.
Sites == {[S |-> prog[d].L, D |-> prog[d].R] : d \in 1 .. Len(prog)} \cup
         {[S |-> prog[d + 1].R, D |-> prog[d].R] : d \in 1 .. Len(prog) - 1}

\* The operands held by the running functions, with their types.
Held == {[T |-> OperandType(stack[i].fn, stack[i].site), v |-> stack[i].value] :
            i \in {j \in 1 .. Len(stack) : stack[j].hasValue}}

Running == phase = "run" /\ stack # <<>>

\* The control state: every step of a run changes it.
ctl == <<phase, [i \in 1 .. Len(stack) |-> stack[i].pc]>>

\* What a function returns when it ends: to its caller's _value_, or as
\* the chain's result.
Returned == IF Len(stack) = 1 THEN result'.val ELSE stack'[Len(stack) - 1].value

--------------------------------------------------------------------------
\* C1 Short-circuit: when the operand of a try() indicates failure, the
\* macro goes to its return, and the return ends the enclosing function at
\* that site: its frame is gone, no later site of it has been entered, and
\* the value handed to the caller (or out of the chain) is the failing
\* operand reshaped into the function's declared result type.
ShortCircuit ==
    [][(Running /\ Top.hasValue /\ Top.pc \in {"CheckFailure", "Exit"}
                /\ Fails(TopS, Top.value)) =>
        IF Top.pc = "CheckFailure"
        THEN /\ Len(stack') = Len(stack)
             /\ Top'.pc = "Exit"
             /\ Top'.fn = Top.fn /\ Top'.site = Top.site
        ELSE /\ Len(stack') = Len(stack) - 1
             /\ Fails(TopD, Returned)
             /\ Returned = (IF OptionalLike(TopD) THEN <<>>
                            ELSE IF CodeLike(TopD) THEN ErrorOf(TopS, Top.value)
                            ELSE <<0, ErrorOf(TopS, Top.value)>>)
             /\ IF Len(stack) = 1
                THEN phase' = "done"
                ELSE /\ Top'.pc = "CheckFailure"
                     /\ Top'.site = stack[Len(stack) - 1].site]_ctl

\* A failure of the innermost function has left both functions of the chain.
ShortCircuitWitness ==
    /\ phase = "done"
    /\ Len(prog) = 2
    /\ hist.failed /\ hist.leaf.depth = 2
    /\ lastTry.outcome = "exit"
    /\ hist.nConv = 2

\* C2 Pass-through: when the operand of a try() does not indicate failure
\* the function does not return at the site; the macro yields the held
\* payload of an optional or the first component of a pair, and nothing for
\* an error code; the function goes on to its next statement.
PassThrough ==
    [][(Running /\ Top.hasValue /\ Top.pc \in {"CheckFailure", "Continue"}
                /\ ~Fails(TopS, Top.value)) =>
        /\ Len(stack') = Len(stack)
        /\ Top'.fn = Top.fn
        /\ IF Top.pc = "CheckFailure"
           THEN Top'.pc = "Continue" /\ Top'.site = Top.site /\ Top'.value = Top.value
           ELSE /\ \/ Top'.pc = "Evaluate" /\ Top'.site = Top.site + 1
                   \/ Top'.pc = "Return" /\ Top.site = Len(Body(Top.fn))
                /\ IF ValueShape(TopS)
                   THEN Top'.yield = [has |-> TRUE, val |-> PayloadOf(TopS, Top.value)]
                   ELSE ~Top'.yield.has]_ctl

\* A successful pair (1, unset) has yielded 1 and the function went on.
PassThroughWitness ==
    /\ Running
    /\ lastTry.outcome = "continue"
    /\ PairLike(lastTry.S) /\ lastTry.value = <<1, 0>>
    /\ Top.yield = [has |-> TRUE, val |-> 1]
    /\ Top.pc = "Evaluate" /\ Top.site > 1

\* C3 Chain result: when the chain has ended, the outermost function has
\* returned a success with the payload of the last operation if no operation
\* failed; otherwise no operation ran after the first failing one, its
\* failure was converted once by every function it left, and the result is
\* a failure of the outermost type: with the original error payload when
\* that type is detailed, the canonical empty value when it is not.
ChainResult ==
    phase = "done" =>
        LET R == prog[1].R
            op == hist.leaf
        IN  IF ~hist.failed
            THEN /\ ~Fails(R, result.val)
                 /\ hist.nConv = 0
                 /\ op.depth = 1
                 /\ (ValueShape(R) /\ ValueShape(op.ty)) =>
                        PayloadOf(R, result.val) = PayloadOf(op.ty, op.val)
            ELSE /\ hist.after = 0
                 /\ hist.nConv = op.depth
                 /\ Fails(R, result.val)
                 /\ IF DetailedShape(R)
                    THEN /\ DetailedShape(op.ty)
                         /\ ErrorOf(R, result.val) = ErrorOf(op.ty, op.val)
                    ELSE result.val = <<>>

\* A pair failing in the inner function reached an outer error code intact.
ChainResultWitness ==
    /\ phase = "done"
    /\ Len(prog) = 2
    /\ hist.failed /\ hist.leaf.depth = 2
    /\ hist.leaf.ty = PAIR(INT, EC) /\ hist.leaf.val = <<1, 2>>
    /\ prog[2].R = PAIR(INT, EC)
    /\ prog[1].R = EC /\ result.val = 2

\* C4 Downgrade-only conversion: a failing source of a detailed type
\* converted to a detailed destination gives a failing value with the same
\* error payload; converted to a destination that is not detailed it gives
\* the destination's empty value, with nothing of the source in it.
DowngradeOnly ==
    (lastTry.outcome = "exit" /\ DetailedShape(lastTry.S)) =>
        /\ Fails(lastTry.S, lastTry.value)
        /\ Fails(lastTry.D, lastTry.out)
        /\ IF DetailedShape(lastTry.D)
           THEN ErrorOf(lastTry.D, lastTry.out) = ErrorOf(lastTry.S, lastTry.value)
           ELSE lastTry.out = <<>> /\ lastTry.out = make_error0(lastTry.D)

\* A failing pair (1, 2) has become an empty optional.
DowngradeOnlyWitness ==
    /\ lastTry.outcome = "exit"
    /\ lastTry.S = PAIR(INT, EC) /\ lastTry.value = <<1, 2>>
    /\ lastTry.D = OPT(INT) /\ lastTry.out = <<>>

\* C5 No upgrade: no accepted unit has a try() site whose operand is not
\* detailed in a function whose result type is detailed, so no proxy of such
\* a source converts to such a destination, and every failing value of a
\* detailed type carries the error of the detailed operation that failed.
NoUpgrade ==
    /\ phase # "rejected" =>
        \A s \in Sites : DetailedShape(s.D) => DetailedShape(s.S)
    /\ (proxy.live /\ DetailedShape(TopD)) => DetailedShape(proxy.Src)
    /\ (lastTry.outcome = "exit" /\ DetailedShape(lastTry.D)) =>
        DetailedShape(lastTry.S)
    /\ \A h \in Held : (DetailedShape(h.T) /\ Fails(h.T, h.v)) =>
        /\ hist.failed /\ DetailedShape(hist.leaf.ty)
        /\ ErrorOf(h.T, h.v) = ErrorOf(hist.leaf.ty, hist.leaf.val)
    /\ (phase = "done" /\ DetailedShape(prog[1].R) /\ Fails(prog[1].R, result.val)) =>
        /\ hist.failed /\ DetailedShape(hist.leaf.ty)
        /\ ErrorOf(prog[1].R, result.val) = ErrorOf(hist.leaf.ty, hist.leaf.val)

\* An optional operand in a function returning an error code is rejected.
NoUpgradeWitness ==
    /\ phase = "rejected"
    /\ diag.S = OPT(INT) /\ diag.D = EC
    /\ stack = <<>> /\ ~lastTry.set

\* C6 (as stated) Cross-shape success: a function returning a pair may
\* apply try() to an optional operand, both types belonging to an error
\* category: no unit is rejected at such a site.
CrossShapeAlwaysAccepted ==
    phase = "rejected" =>
        ~(OptionalLike(diag.S) /\ PairLike(diag.D)
          /\ InCategory(diag.S) /\ InCategory(diag.D))

\* C6 (amended) A try() site is accepted exactly when both types belong to
\* an error category and, if the result type is detailed, the operand type
\* is detailed too with the same error code type: an optional operand in a
\* function returning a pair is rejected whatever it holds.  At an accepted
\* site where the two types differ, a successful operand yields its payload
\* and the function goes on.
CrossShapeAccepted ==
    /\ phase = "rejected" =>
        \/ ~InCategory(diag.S)
        \/ ~InCategory(diag.D)
        \/ /\ DetailedShape(diag.D)
           /\ ~DetailedShape(diag.S) \/ CodeTypeOf(diag.S) # CodeTypeOf(diag.D)
    /\ phase # "rejected" =>
        \A s \in Sites :
            /\ InCategory(s.S) /\ InCategory(s.D)
            /\ DetailedShape(s.D) =>
                (DetailedShape(s.S) /\ CodeTypeOf(s.S) = CodeTypeOf(s.D))
    /\ (lastTry.outcome = "continue" /\ lastTry.S # lastTry.D) =>
        /\ ~Fails(lastTry.S, lastTry.value)
        /\ hist.nConv = 0
        /\ ValueShape(lastTry.S) =>
            (lastTry.yields /\ lastTry.out = PayloadOf(lastTry.S, lastTry.value))

\* The unit with an optional operand in a function returning a pair is
\* rejected.
CrossShapeWitness ==
    /\ phase = "rejected"
    /\ diag.S = OPT(INT) /\ diag.D = PAIR(INT, EC)

\* C7 Pair adapter: a pair indicates failure exactly when its second
\* component is set; a successful pair gives its first component as the
\* value, a failing one its second as the error; make_error(e) is the pair
\* (0, e); a failure converted into a function returning a pair is (0, E)
\* whatever first component it came with.
PairAdapter ==
    /\ \A h \in Held \cup {[T |-> lastTry.S, v |-> lastTry.value]} : PairLike(h.T) =>
        /\ indicates_error(h.T, h.v) <=> h.v[2] # 0
        /\ h.v[2] = 0 => extract_value(h.T, h.v) = {h.v[1]}
        /\ h.v[2] # 0 => extract_error(h.T, h.v) = h.v[2]
        /\ make_error(h.T, h.v[2]) = <<0, h.v[2]>>
    /\ (lastTry.outcome = "exit" /\ PairLike(lastTry.D)) =>
        lastTry.out = <<0, ErrorOf(lastTry.S, lastTry.value)>>

\* A failing pair (1, 2) has become (0, 2) in a function returning a pair.
PairAdapterWitness ==
    /\ lastTry.outcome = "exit"
    /\ lastTry.S = PAIR(INT, EC) /\ lastTry.value = <<1, 2>>
    /\ lastTry.D = PAIR(INT, EC) /\ lastTry.out = <<0, 2>>

\* C8 Adapter classification: an optional is an error with value and not a
\* detailed error, an error code the reverse, a pair of a value and an error
\* code both, so all three are error types; a pair whose second component
\* is an optional or a pair is neither, and no accepted unit names one as
\* an operand or a result type.
Classification ==
    LET Seen == {prog[d].R : d \in 1 .. Len(prog)} \cup
                {prog[d].L : d \in 1 .. Len(prog)} \cup {diag.S, diag.D}
    IN  /\ \A T \in Seen :
            /\ OptionalLike(T) =>
                is_error_with_value_v(T) /\ ~is_detailed_error_v(T) /\ is_error_v(T)
            /\ CodeLike(T) =>
                is_detailed_error_v(T) /\ ~is_error_with_value_v(T) /\ is_error_v(T)
            /\ PairLike(T) =>
                is_detailed_error_v(T) /\ is_error_with_value_v(T) /\ is_error_v(T)
            /\ BadPair(T) =>
                ~is_detailed_error_v(T) /\ ~is_error_with_value_v(T) /\ ~is_error_v(T)
        /\ phase # "rejected" =>
            \A d \in 1 .. Len(prog) : ~BadPair(prog[d].R) /\ ~BadPair(prog[d].L)
        /\ (diag.set /\ (BadPair(diag.S) \/ BadPair(diag.D))) => phase = "rejected"

\* A function returning a pair of a value and a pair is rejected.
ClassificationWitness ==
    /\ phase = "rejected"
    /\ diag.D = PAIR(INT, PAIR(INT, EC))
    /\ diag.S = OPT(INT)

\* C9 Conversion proxy lifecycle: a proxy exists only in the function on
\* top while it is at its return, over an operand that indicates_error has
\* already found failing; no proxy exists while any function runs its
\* ordinary code or after the return; every proxy constructed is converted
\* exactly once.
ProxyLifecycle ==
    /\ proxy.live =>
        /\ Running
        /\ Top.pc = "Exit"
        /\ proxy.owner = Len(stack)
        /\ proxy.Src = TopS
        /\ Top.hasValue /\ Fails(TopS, Top.value)
        /\ Top.reads = <<"evaluate", "indicates_error">>
    /\ (Running /\ Top.pc = "Exit") => proxy.live
    /\ \A i \in 1 .. Len(stack) - 1 : stack[i].pc = "Evaluate"
    /\ hist.nCtor = hist.nConv + (IF proxy.live THEN 1 ELSE 0)

\* The proxy of the inner function's return exists, the outer waits.
ProxyLifecycleWitness ==
    /\ proxy.live
    /\ Len(stack) = 2
    /\ hist.nCtor = 1 /\ hist.nConv = 0

\* C10 Extraction discipline: the operand of a try() is evaluated once,
\* indicates_error is applied to it next, and then at most one extraction:
\* extract_value only to an operand that does not indicate failure,
\* extract_error only to one that does and for a detailed destination;
\* nothing reads the operand after that.
ExtractionDiscipline ==
    /\ \A i \in 1 .. Len(stack) :
        IF stack[i].hasValue
        THEN stack[i].reads = (IF stack[i].pc = "CheckFailure" THEN <<"evaluate">>
                               ELSE <<"evaluate", "indicates_error">>)
        ELSE stack[i].reads = <<>>
    /\ lastTry.set =>
        /\ SubSeq(lastTry.reads, 1, 2) = <<"evaluate", "indicates_error">>
        /\ Len(lastTry.reads) \in {2, 3}
        /\ IF lastTry.outcome = "continue"
           THEN /\ ~Fails(lastTry.S, lastTry.value)
                /\ Len(lastTry.reads) = 3 <=> ValueShape(lastTry.S)
                /\ Len(lastTry.reads) = 3 => lastTry.reads[3] = "extract_value"
           ELSE /\ Fails(lastTry.S, lastTry.value)
                /\ Len(lastTry.reads) = 3 <=> DetailedShape(lastTry.D)
                /\ Len(lastTry.reads) = 3 => lastTry.reads[3] = "extract_error"

\* A failing pair was tested and left without any extraction, on its way
\* into an optional.
ExtractionDisciplineWitness ==
    /\ lastTry.outcome = "exit"
    /\ lastTry.S = PAIR(INT, EC) /\ lastTry.D = OPT(INT)
    /\ lastTry.reads = <<"evaluate", "indicates_error">>
    /\ hist.nConv = 1

============================================================================
